---- MODULE Spec2Model ----
(***************************************************************************)
(* Model of the WIPP client (wipp_client/wipp.py): the page fetcher, the   *)
(* pagination walker and the entity mutator, run against a stateful        *)
(* paginated HAL service holding the records of one resource kind.         *)
(***************************************************************************)
EXTENDS Integers, Sequences, FiniteSets, TLC

\* Bounds of the model.
MaxPages == 2
MaxPageLen == 2
MaxId == 3
MaxOptional == 2
MaxOtherCreates == 1

VARIABLES
    kind,         \* the resource kind ("plural") the calls are made for
    pages,        \* service: the pages of the collection, each a sequence of record ids
    nextId,       \* service: the id given to the next created record
    op,           \* the client method called last
    requests,     \* the HTTP requests that call has issued so far, with their answers
    total_pages,  \* get_entities_all_pages: total_pages read from the summary
    all_pages,    \* get_entities_all_pages: the page results collected so far
    outcome,      \* "pending" | "returned" | "raised"
    error,        \* the exception class raised, "" when none
    result,       \* the value returned
    live,         \* ids returned by a create and not since deleted with success
    auth_headers, \* Wipp._auth_headers
    token,        \* the keycloak token assigned last, "" before the first
    extra_query,  \* the extra_query argument of the calls
    built,        \* build_request_url: the last call's arguments and its URL
    roundtrip     \* an entity built, serialized with its aliases and parsed back

vars == <<kind, pages, nextId, op, requests, total_pages, all_pages,
          outcome, error, result, live, auth_headers, token, extra_query,
          built, roundtrip>>

----------------------------------------------------------------------------
\* Resource kinds

SpecializedKinds == {"imagesCollections", "images", "csvCollections", "csv",
                     "genericDatas", "genericFile", "plugins"}

GenericKinds == {"jobs", "workflows"}

Kinds == SpecializedKinds \cup GenericKinds

\* the kinds that have create_X, delete_X and get_X
FacadeKinds == {"imagesCollections", "csvCollections", "genericDatas", "plugins"}

\* HTTP statuses the service answers with
GetStatuses == {200, 401, 403, 404, 500}
PostStatuses == {201, 401, 403, 404, 500}
DeleteStatuses == {200, 204, 401, 403, 404, 500}

----------------------------------------------------------------------------
\* Entity shapes (pydantic models); field names are the wire aliases

WippEntityFields == {}

WippAbstractCollectionFields ==
    {"id", "name", "creationDate", "locked", "sourceJob"}

WippImageCollectionFields ==
    WippAbstractCollectionFields \cup
    {"imagesTotalSize", "importMethod", "metadataFilesTotalSize", "notes",
     "numberImportingImages", "numberOfImages", "numberOfImportErrors",
     "numberOfMetadataFiles", "pattern", "sourceCatalog"}

WippImageFields ==
    {"fileName", "originalFileName", "fileSize", "importing", "importError"}

WippCsvCollectionFields ==
    WippAbstractCollectionFields \cup
    {"csvTotalSize", "numberImportingCsv", "numberOfCsvFiles",
     "numberOfImportErrors"}

WippCsvFields ==
    {"fileName", "originalFileName", "fileSize", "importing", "importError"}

WippGenericDataCollectionFields ==
    WippAbstractCollectionFields \cup
    {"description", "fileTotalSize", "metadata", "numberOfFiles", "type"}

WippGenericDataFileFields == {"fileName", "originalFileName", "fileSize"}

WippPluginFields ==
    {"author", "citation", "containerId", "creationDate", "description", "id",
     "institution", "name", "outputs", "repository", "title", "ui", "version",
     "website"}

\* the fields a pydantic model declares
ModelFields(cls) ==
    CASE cls = "WippImageCollection" -> WippImageCollectionFields
      [] cls = "WippImage" -> WippImageFields
      [] cls = "WippCsvCollection" -> WippCsvCollectionFields
      [] cls = "WippCsv" -> WippCsvFields
      [] cls = "WippGenericDataCollection" -> WippGenericDataCollectionFields
      [] cls = "WippGenericDataFile" -> WippGenericDataFileFields
      [] cls = "WippPlugin" -> WippPluginFields
      [] OTHER -> WippEntityFields

\* the fields declared without Optional: a record lacking one is rejected
RequiredFields(cls) ==
    CASE cls \in {"WippImageCollection", "WippCsvCollection",
                  "WippGenericDataCollection"} -> {"name"}
      [] cls \in {"WippImage", "WippCsv", "WippGenericDataFile"} ->
            {"fileName", "fileSize"}
      [] cls = "WippPlugin" ->
            {"containerId", "description", "name", "outputs", "title", "ui",
             "version"}
      [] OTHER -> {}

\* the class a record of a kind is parsed into (the if/elif chain)
EntityClass(plural) ==
    IF plural = "imagesCollections" THEN "WippImageCollection"
    ELSE IF plural = "images" THEN "WippImage"
    ELSE IF plural = "csvCollections" THEN "WippCsvCollection"
    ELSE IF plural = "csv" THEN "WippCsv"
    ELSE IF plural = "genericDatas" THEN "WippGenericDataCollection"
    ELSE IF plural = "genericFile" THEN "WippGenericDataFile"
    ELSE IF plural = "plugins" THEN "WippPlugin"
    ELSE "WippEntity"

----------------------------------------------------------------------------
\* Python values: a call either raises (exc # "") or returns value

None == [isNone |-> TRUE, list |-> <<>>]
ListValue(l) == [isNone |-> FALSE, list |-> l]

Returns(v) == [exc |-> "", value |-> v]
Raises(e) == [exc |-> e, value |-> None]

\* cls(**entity): pydantic keeps the declared fields found in the record,
\* ignores every other key (Config.extra is the default, ignore) and rejects
\* a record that lacks a required field
Construct(cls, entity) ==
    IF ~(RequiredFields(cls) \subseteq DOMAIN entity)
    THEN Raises("ValidationError")
    ELSE Returns([type |-> cls,
                  fields |-> [f \in (DOMAIN entity) \cap ModelFields(cls)
                                 |-> entity[f]]])

\* the exception classes: __init__(self, message, errors) takes two arguments
WippAuthenticationError(args) ==
    IF Len(args) = 2 THEN "WippAuthenticationError" ELSE "TypeError"

WippForbiddenError(args) ==
    IF Len(args) = 2 THEN "WippForbiddenError" ELSE "TypeError"

WippNotFoundError(args) ==
    IF Len(args) = 2 THEN "WippNotFoundError" ELSE "TypeError"

----------------------------------------------------------------------------
\* The declared fields of the pydantic models, by their Python names (as
\* sequences of characters), and the alias generator

WippEntityDeclared == <<>>

WippAbstractCollectionDeclared ==
    <<
    [name |-> <<"i", "d">>, optional |-> TRUE],
    [name |-> <<"n", "a", "m", "e">>, optional |-> FALSE],
    [name |-> <<"c", "r", "e", "a", "t", "i", "o", "n", "_", "d", "a", "t", "e">>, optional |-> TRUE],
    [name |-> <<"l", "o", "c", "k", "e", "d">>, optional |-> TRUE],
    [name |-> <<"s", "o", "u", "r", "c", "e", "_", "j", "o", "b">>, optional |-> TRUE]
    >>

WippImageCollectionDeclared ==
    WippAbstractCollectionDeclared \o
    <<
    [name |-> <<"i", "m", "a", "g", "e", "s", "_", "t", "o", "t", "a", "l", "_", "s", "i", "z", "e">>, optional |-> TRUE],
    [name |-> <<"i", "m", "p", "o", "r", "t", "_", "m", "e", "t", "h", "o", "d">>, optional |-> TRUE],
    [name |-> <<"m", "e", "t", "a", "d", "a", "t", "a", "_", "f", "i", "l", "e", "s", "_", "t", "o", "t", "a", "l", "_", "s", "i", "z", "e">>, optional |-> TRUE],
    [name |-> <<"n", "o", "t", "e", "s">>, optional |-> TRUE],
    [name |-> <<"n", "u", "m", "b", "e", "r", "_", "i", "m", "p", "o", "r", "t", "i", "n", "g", "_", "i", "m", "a", "g", "e", "s">>, optional |-> TRUE],
    [name |-> <<"n", "u", "m", "b", "e", "r", "_", "o", "f", "_", "i", "m", "a", "g", "e", "s">>, optional |-> TRUE],
    [name |-> <<"n", "u", "m", "b", "e", "r", "_", "o", "f", "_", "i", "m", "p", "o", "r", "t", "_", "e", "r", "r", "o", "r", "s">>, optional |-> TRUE],
    [name |-> <<"n", "u", "m", "b", "e", "r", "_", "o", "f", "_", "m", "e", "t", "a", "d", "a", "t", "a", "_", "f", "i", "l", "e", "s">>, optional |-> TRUE],
    [name |-> <<"p", "a", "t", "t", "e", "r", "n">>, optional |-> TRUE],
    [name |-> <<"s", "o", "u", "r", "c", "e", "_", "c", "a", "t", "a", "l", "o", "g">>, optional |-> TRUE]
    >>

WippImageDeclared ==
    <<
    [name |-> <<"f", "i", "l", "e", "_", "n", "a", "m", "e">>, optional |-> FALSE],
    [name |-> <<"o", "r", "i", "g", "i", "n", "a", "l", "_", "f", "i", "l", "e", "_", "n", "a", "m", "e">>, optional |-> TRUE],
    [name |-> <<"f", "i", "l", "e", "_", "s", "i", "z", "e">>, optional |-> FALSE],
    [name |-> <<"i", "m", "p", "o", "r", "t", "i", "n", "g">>, optional |-> TRUE],
    [name |-> <<"i", "m", "p", "o", "r", "t", "_", "e", "r", "r", "o", "r">>, optional |-> TRUE]
    >>

WippCsvCollectionDeclared ==
    WippAbstractCollectionDeclared \o
    <<
    [name |-> <<"c", "s", "v", "_", "t", "o", "t", "a", "l", "_", "s", "i", "z", "e">>, optional |-> TRUE],
    [name |-> <<"n", "u", "m", "b", "e", "r", "_", "i", "m", "p", "o", "r", "t", "i", "n", "g", "_", "c", "s", "v">>, optional |-> TRUE],
    [name |-> <<"n", "u", "m", "b", "e", "r", "_", "o", "f", "_", "c", "s", "v", "_", "f", "i", "l", "e", "s">>, optional |-> TRUE],
    [name |-> <<"n", "u", "m", "b", "e", "r", "_", "o", "f", "_", "i", "m", "p", "o", "r", "t", "_", "e", "r", "r", "o", "r", "s">>, optional |-> TRUE]
    >>

WippCsvDeclared ==
    <<
    [name |-> <<"f", "i", "l", "e", "_", "n", "a", "m", "e">>, optional |-> FALSE],
    [name |-> <<"o", "r", "i", "g", "i", "n", "a", "l", "_", "f", "i", "l", "e", "_", "n", "a", "m", "e">>, optional |-> TRUE],
    [name |-> <<"f", "i", "l", "e", "_", "s", "i", "z", "e">>, optional |-> FALSE],
    [name |-> <<"i", "m", "p", "o", "r", "t", "i", "n", "g">>, optional |-> TRUE],
    [name |-> <<"i", "m", "p", "o", "r", "t", "_", "e", "r", "r", "o", "r">>, optional |-> TRUE]
    >>

WippGenericDataCollectionDeclared ==
    WippAbstractCollectionDeclared \o
    <<
    [name |-> <<"d", "e", "s", "c", "r", "i", "p", "t", "i", "o", "n">>, optional |-> TRUE],
    [name |-> <<"f", "i", "l", "e", "_", "t", "o", "t", "a", "l", "_", "s", "i", "z", "e">>, optional |-> TRUE],
    [name |-> <<"m", "e", "t", "a", "d", "a", "t", "a">>, optional |-> TRUE],
    [name |-> <<"n", "u", "m", "b", "e", "r", "_", "o", "f", "_", "f", "i", "l", "e", "s">>, optional |-> TRUE],
    [name |-> <<"t", "y", "p", "e">>, optional |-> TRUE]
    >>

WippGenericDataFileDeclared ==
    <<
    [name |-> <<"f", "i", "l", "e", "_", "n", "a", "m", "e">>, optional |-> FALSE],
    [name |-> <<"o", "r", "i", "g", "i", "n", "a", "l", "_", "f", "i", "l", "e", "_", "n", "a", "m", "e">>, optional |-> TRUE],
    [name |-> <<"f", "i", "l", "e", "_", "s", "i", "z", "e">>, optional |-> FALSE]
    >>

WippPluginDeclared ==
    <<
    [name |-> <<"a", "u", "t", "h", "o", "r">>, optional |-> TRUE],
    [name |-> <<"c", "i", "t", "a", "t", "i", "o", "n">>, optional |-> TRUE],
    [name |-> <<"c", "o", "n", "t", "a", "i", "n", "e", "r", "_", "i", "d">>, optional |-> FALSE],
    [name |-> <<"c", "r", "e", "a", "t", "i", "o", "n", "_", "d", "a", "t", "e">>, optional |-> TRUE],
    [name |-> <<"d", "e", "s", "c", "r", "i", "p", "t", "i", "o", "n">>, optional |-> FALSE],
    [name |-> <<"i", "d">>, optional |-> TRUE],
    [name |-> <<"i", "n", "s", "t", "i", "t", "u", "t", "i", "o", "n">>, optional |-> TRUE],
    [name |-> <<"n", "a", "m", "e">>, optional |-> FALSE],
    [name |-> <<"o", "u", "t", "p", "u", "t", "s">>, optional |-> FALSE],
    [name |-> <<"r", "e", "p", "o", "s", "i", "t", "o", "r", "y">>, optional |-> TRUE],
    [name |-> <<"t", "i", "t", "l", "e">>, optional |-> FALSE],
    [name |-> <<"u", "i">>, optional |-> FALSE],
    [name |-> <<"v", "e", "r", "s", "i", "o", "n">>, optional |-> FALSE],
    [name |-> <<"w", "e", "b", "s", "i", "t", "e">>, optional |-> TRUE]
    >>

\* inputs is assigned (inputs = list), not annotated: pydantic leaves a class
\* attribute whose value is a type untouched, so it is no field of WippPlugin
WippPluginInputs == <<"i", "n", "p", "u", "t", "s">>

\* the declared fields of a class
Declared(cls) ==
    CASE cls = "WippImageCollection" -> WippImageCollectionDeclared
      [] cls = "WippImage" -> WippImageDeclared
      [] cls = "WippCsvCollection" -> WippCsvCollectionDeclared
      [] cls = "WippCsv" -> WippCsvDeclared
      [] cls = "WippGenericDataCollection" -> WippGenericDataCollectionDeclared
      [] cls = "WippGenericDataFile" -> WippGenericDataFileDeclared
      [] cls = "WippPlugin" -> WippPluginDeclared
      [] OTHER -> WippEntityDeclared

DeclaredNames(cls) == {Declared(cls)[j].name : j \in 1..Len(Declared(cls))}

RequiredNames(cls) ==
    {Declared(cls)[j].name :
        j \in {k \in 1..Len(Declared(cls)) : ~Declared(cls)[k].optional}}

\* str.upper and str.lower of one character
upper(c) ==
    CASE c = "a" -> "A"
      [] c = "b" -> "B"
      [] c = "c" -> "C"
      [] c = "d" -> "D"
      [] c = "e" -> "E"
      [] c = "f" -> "F"
      [] c = "g" -> "G"
      [] c = "h" -> "H"
      [] c = "i" -> "I"
      [] c = "j" -> "J"
      [] c = "k" -> "K"
      [] c = "l" -> "L"
      [] c = "m" -> "M"
      [] c = "n" -> "N"
      [] c = "o" -> "O"
      [] c = "p" -> "P"
      [] c = "q" -> "Q"
      [] c = "r" -> "R"
      [] c = "s" -> "S"
      [] c = "t" -> "T"
      [] c = "u" -> "U"
      [] c = "v" -> "V"
      [] c = "w" -> "W"
      [] c = "x" -> "X"
      [] c = "y" -> "Y"
      [] c = "z" -> "Z"
      [] OTHER -> c

lower(c) ==
    CASE c = "A" -> "a"
      [] c = "B" -> "b"
      [] c = "C" -> "c"
      [] c = "D" -> "d"
      [] c = "E" -> "e"
      [] c = "F" -> "f"
      [] c = "G" -> "g"
      [] c = "H" -> "h"
      [] c = "I" -> "i"
      [] c = "J" -> "j"
      [] c = "K" -> "k"
      [] c = "L" -> "l"
      [] c = "M" -> "m"
      [] c = "N" -> "n"
      [] c = "O" -> "o"
      [] c = "P" -> "p"
      [] c = "Q" -> "q"
      [] c = "R" -> "r"
      [] c = "S" -> "s"
      [] c = "T" -> "t"
      [] c = "U" -> "u"
      [] c = "V" -> "v"
      [] c = "W" -> "w"
      [] c = "X" -> "x"
      [] c = "Y" -> "y"
      [] c = "Z" -> "z"
      [] OTHER -> c

\* string.split("_"): the pieces between the underscores, empty ones included
RECURSIVE split(_, _)
split(string, piece) ==
    IF string = <<>> THEN <<piece>>
    ELSE IF Head(string) = "_" THEN <<piece>> \o split(Tail(string), <<>>)
    ELSE split(Tail(string), Append(piece, Head(string)))

\* filter(None, words): the non-empty words
filter_None(words) == SelectSeq(words, LAMBDA w : w # <<>>)

\* "".join of characters, as a string
RECURSIVE join(_)
join(chars) == IF chars = <<>> THEN "" ELSE Head(chars) \o join(Tail(chars))

\* word.capitalize(): the first character upper case, the others lower case
capitalize(word) ==
    IF word = <<>> THEN <<>>
    ELSE <<upper(Head(word))>> \o [j \in 1..(Len(word) - 1) |-> lower(word[j + 1])]

RECURSIVE join_capitalized(_)
join_capitalized(words) ==
    IF words = <<>> THEN ""
    ELSE join(capitalize(Head(words))) \o join_capitalized(Tail(words))

\* snake_case_to_lower_camel_case
snake_case_to_lower_camel_case(string) ==
    LET words == filter_None(split(string, <<>>)) IN
    join(words[1]) \o join_capitalized(Tail(words))

\* the Python name of the field of a class that has the alias a
FieldOfAlias(cls, a) ==
    CHOOSE n \in DeclaredNames(cls) : snake_case_to_lower_camel_case(n) = a

AliasesOf(cls) ==
    {snake_case_to_lower_camel_case(n) : n \in DeclaredNames(cls)}

\* None as the value of an attribute
PyNone == <<>>

\* cls(**data) as an object with its attributes: every declared field is
\* read under its alias (None when the key is absent), other keys are ignored
parse_obj(cls, data) ==
    IF \E n \in RequiredNames(cls) :
          \/ snake_case_to_lower_camel_case(n) \notin DOMAIN data
          \/ data[snake_case_to_lower_camel_case(n)] = PyNone
    THEN Raises("ValidationError")
    ELSE Returns([type |-> cls,
                  attrs |-> [n \in DeclaredNames(cls) |->
                     IF snake_case_to_lower_camel_case(n) \in DOMAIN data
                     THEN data[snake_case_to_lower_camel_case(n)]
                     ELSE PyNone]])

\* entity.dict(by_alias=True)
dict_by_alias(obj) ==
    [a \in AliasesOf(obj.type) |-> obj.attrs[FieldOfAlias(obj.type, a)]]

----------------------------------------------------------------------------
\* The service: a paginated HAL store of the records of one kind

\* the key under which the service nests the records of a kind
ServiceKey(plural) ==
    CASE plural = "csv" -> "csvs"
      [] plural = "genericFile" -> "genericFiles"
      [] OTHER -> plural

\* the JSON record the service holds for id i; every value is tagged with i
WireFields(plural) ==
    CASE plural \in {"imagesCollections", "csvCollections", "genericDatas"} ->
            {"id", "name", "creationDate", "_links"}
      [] plural \in {"images", "csv", "genericFile"} ->
            {"fileName", "fileSize", "_links"}
      [] plural = "plugins" ->
            {"id", "name", "version", "containerId", "title", "description",
             "inputs", "outputs", "ui", "_links"}
      [] OTHER -> {"id", "name", "status", "_links"}

WireRecord(plural, i) == [f \in WireFields(plural) |-> i]

ServicePage(index) ==
    IF index + 1 \in DOMAIN pages THEN pages[index + 1] ELSE <<>>

\* the answer to GET <kind>?page=index
ServiceGet(status, index) ==
    [status |-> status,
     embedded |-> IF status = 200
                  THEN [k \in {ServiceKey(kind)} |->
                          [j \in 1..Len(ServicePage(index)) |->
                              WireRecord(kind, ServicePage(index)[j])]]
                  ELSE [k \in {} |-> <<>>],
     totalPages |-> Len(pages),
     size |-> MaxPageLen]

RECURSIVE Flatten(_)
Flatten(pp) == IF pp = <<>> THEN <<>> ELSE Head(pp) \o Flatten(Tail(pp))

StoredIds == {Flatten(pages)[j] : j \in 1..Len(Flatten(pages))}

\* POST: the new record goes to the last page, or to a new page when that is full
ServiceAppend(i) ==
    IF pages # <<>> /\ Len(pages[Len(pages)]) < MaxPageLen
    THEN [pages EXCEPT ![Len(pages)] = Append(@, i)]
    ELSE Append(pages, <<i>>)

\* DELETE: the record leaves its page
ServiceRemove(i) ==
    [p \in 1..Len(pages) |-> SelectSeq(pages[p], LAMBDA x : x # i)]

\* the records of a listing cut into pages of the service's page size
RECURSIVE Chunk(_)
Chunk(records) ==
    IF records = <<>> THEN <<>>
    ELSE IF Len(records) <= MaxPageLen THEN <<records>>
    ELSE <<SubSeq(records, 1, MaxPageLen)>>
         \o Chunk(SubSeq(records, MaxPageLen + 1, Len(records)))

\* the listing after another client's POST: the new record takes the place
\* at of the service's order, the records behind it move up by one
ServiceInsert(i, at) ==
    LET records == Flatten(pages) IN
    Chunk(SubSeq(records, 1, at - 1) \o <<i>>
          \o SubSeq(records, at, Len(records)))

\* the listing after another client's DELETE: the records behind the deleted
\* one move down by one
ServiceDrop(i) == Chunk(SelectSeq(Flatten(pages), LAMBDA x : x # i))

----------------------------------------------------------------------------
\* The client

\* record_key without the two exceptions
record_key_plain(plural) == plural

\* the envelope key read for a kind
record_key(plural) ==
    IF plural = "csv" THEN "csvs"
    ELSE IF plural = "genericFile" THEN "genericFiles"
    ELSE plural

\* get_entities_summary: (total_pages, page_size) on 200, None otherwise
get_entities_summary(r) ==
    IF r.status = 200
    THEN Returns([isNone |-> FALSE, total_pages |-> r.totalPages,
                  page_size |-> r.size])
    ELSE Returns([isNone |-> TRUE, total_pages |-> 0, page_size |-> 0])

\* get_entities_page: the parsed records on 200, None otherwise
get_entities_page(plural, r) ==
    IF r.status = 200
    THEN LET key == record_key(plural) IN
         IF key \notin DOMAIN r.embedded THEN Raises("KeyError")
         ELSE LET entities_page == r.embedded[key]
                  cls == EntityClass(plural)
              IN  IF \E j \in 1..Len(entities_page) :
                        Construct(cls, entities_page[j]).exc # ""
                  THEN Raises("ValidationError")
                  ELSE Returns(ListValue(
                         [j \in 1..Len(entities_page) |->
                             Construct(cls, entities_page[j]).value]))
    ELSE Returns(None)

\* range(n) counted from one
range_from_one(n) == 1..n

\* range(n) with the end included
range_inclusive(n) == 0..n

\* range(n)
range(n) == 0..(n - 1)

\* sum that adds each list in front of the ones before it
RECURSIVE sum_reversed(_, _)
sum_reversed(iterable, start) ==
    IF iterable = <<>> THEN Returns(start)
    ELSE IF Head(iterable).isNone THEN Raises("TypeError")
    ELSE sum_reversed(Tail(iterable),
                      ListValue(Head(iterable).list \o start.list))

\* sum(iterable, start) over lists: list + None raises TypeError
RECURSIVE sum(_, _)
sum(iterable, start) ==
    IF iterable = <<>> THEN Returns(start)
    ELSE IF Head(iterable).isNone THEN Raises("TypeError")
    ELSE sum(Tail(iterable), ListValue(start.list \o Head(iterable).list))

\* get_entities: the flattened pages
get_entities(pagelist) == sum(pagelist, ListValue(<<>>))

\* create_entity that takes 200, not 201, for the created status
create_entity_expects_200(plural, r) ==
    IF r.status = 200
    THEN LET c == Construct(EntityClass(plural), r.json) IN
         IF c.exc # "" THEN c ELSE Returns(ListValue(<<c.value>>))
    ELSE Returns(None)

\* create_entity on the response r
create_entity(plural, r) ==
    IF r.status = 201
    THEN IF "name" \notin DOMAIN r.json THEN Raises("KeyError")
         ELSE LET c == Construct(EntityClass(plural), r.json) IN
              IF c.exc # "" THEN c ELSE Returns(ListValue(<<c.value>>))
    ELSE IF r.status = 401 THEN Raises(WippAuthenticationError(<<>>))
    ELSE IF r.status = 403 THEN Raises(WippForbiddenError(<<>>))
    ELSE IF r.status = 404 THEN Raises(WippNotFoundError(<<>>))
    ELSE Returns(None)

\* delete_entity on the response r
delete_entity(plural, r) ==
    IF r.status = 200 \/ r.status = 204 THEN Returns(None) ELSE Returns(None)

\* The client's state and arguments when nothing was set or called

\* _auth_headers = None
NoHeaders == [isNone |-> TRUE, Authorization |-> ""]

\* extra_query = {}
\* the headers kept when the token is stored as it is given
auth_headers_bare(keycloak_token) ==
    [isNone |-> FALSE, Authorization |-> keycloak_token]

\* auth_headers.setter
auth_headers_setter(keycloak_token) ==
    [isNone |-> FALSE, Authorization |-> "Bearer " \o keycloak_token]

\* the tokens a caller assigns
Tokens == {"t1", "t2"}

EmptyDict == [k \in {} |-> 0]

NotBuilt == [called |-> FALSE]

NoRoundTrip == [cls |-> ""]

----------------------------------------------------------------------------
\* URLs: a path is a sequence of tokens, each a separator "/" or the text of
\* a segment; a dict maps its keys to lists of strings

\* os.path.join(path, *rest)
RECURSIVE os_path_join(_, _)
os_path_join(path, rest) ==
    IF rest = <<>> THEN path
    ELSE LET b == Head(rest) IN
         os_path_join(
            IF b # <<>> /\ Head(b) = "/" THEN b
            ELSE IF path = <<>> \/ path[Len(path)] = "/" THEN path \o b
            ELSE path \o <<"/">> \o b,
            Tail(rest))

\* a | b and a.update(b): the values of b win
dict_update(a, b) ==
    [k \in (DOMAIN a) \cup (DOMAIN b) |-> IF k \in DOMAIN b THEN b[k] ELSE a[k]]

\* the keys of the queries, in the order the dicts are filled: the keys of
\* the API route, then page, then the caller's
QueryKeyOrder == <<"size", "page", "name">>

\* urlencode(query, doseq=True): key=value for every value of every key
RECURSIVE urlencode_values(_, _)
urlencode_values(key, values) ==
    IF values = <<>> THEN <<>>
    ELSE <<key \o "=" \o Head(values)>> \o urlencode_values(key, Tail(values))

RECURSIVE urlencode_keys(_, _)
urlencode_keys(query, keys) ==
    IF keys = <<>> THEN <<>>
    ELSE (IF Head(keys) \in DOMAIN query
          THEN urlencode_values(Head(keys), query[Head(keys)])
          ELSE <<>>)
         \o urlencode_keys(query, Tail(keys))

RECURSIVE join_with(_, _)
join_with(sep, strings) ==
    IF strings = <<>> THEN ""
    ELSE IF Len(strings) = 1 THEN Head(strings)
    ELSE Head(strings) \o sep \o join_with(sep, Tail(strings))

urlencode(query) == join_with("&", urlencode_keys(query, QueryKeyOrder))

\* urlunparse of scheme, netloc, path and query
urlunparse(scheme, netloc, path, query) ==
    scheme \o "://" \o netloc
    \o (IF path # <<>> /\ Head(path) # "/" THEN "/" ELSE "")
    \o join(path)
    \o (IF query # "" THEN "?" \o query ELSE "")

\* build_request_url on the parsed API route
build_request_url(parsed_api_route, plural, path_prefix, path_suffix, query) ==
    LET parsed_query == dict_update(parsed_api_route.query, query)
        path == os_path_join(parsed_api_route.path,
                             <<path_prefix, <<plural>>, path_suffix>>)
    IN [path |-> path,
        query |-> parsed_query,
        url |-> urlunparse(parsed_api_route.scheme, parsed_api_route.netloc,
                           path, urlencode(parsed_query))]

\* the API routes, path prefixes, path suffixes and extra queries of the calls
ApiRoutes ==
    {[scheme |-> "http", netloc |-> "wipp", path |-> p, query |-> q] :
        p \in {<<>>, <<"/", "api">>, <<"/", "api", "/">>},
        q \in {EmptyDict, [k \in {"size"} |-> <<"5">>]}}

PathPrefixes == {<<>>, <<"imagesCollections", "/", "1">>}

PathSuffixes == {<<>>, <<"1">>, <<"search", "/", "findByNameContainingIgnoreCase">>}

ExtraQueries ==
    {EmptyDict, [k \in {"name"} |-> <<"x">>], [k \in {"page"} |-> <<"1">>]}

----------------------------------------------------------------------------
\* Requests as logged

\* the route the client was constructed on
parsed_api_route ==
    [scheme |-> "http", netloc |-> "wipp", path |-> <<"/", "api">>,
     query |-> EmptyDict]

\* str(index) and, on the service's side, the number a page parameter names
str(index) == ToString(index)

int(string) ==
    CHOOSE i \in 0..(MaxPages + MaxId + MaxOtherCreates) : str(i) = string

\* the query a page request is built from: {"page": index} | extra_query
page_query(index, query) ==
    dict_update([k \in {"page"} |-> <<str(index)>>], query)

\* the query of the URL a request goes to
request_query(plural, query) ==
    build_request_url(parsed_api_route, plural, <<>>, <<>>, query).query

\* the page a request asks the service for
requested_page(query) == int(query["page"][1])

\* index is the page index the caller passed, query the query of the URL,
\* page the page that query names
Request(method, hasPage, index, query, suffix, status, key, served) ==
    [method |-> method, hasPage |-> hasPage, index |-> index, query |-> query,
     page |-> IF hasPage THEN requested_page(query) ELSE 0, suffix |-> suffix,
     status |-> status, key |-> key, served |-> served,
     headers |-> auth_headers]

Finish(call) ==
    /\ outcome' = IF call.exc = "" THEN "returned" ELSE "raised"
    /\ error' = call.exc
    /\ result' = call.value

----------------------------------------------------------------------------
\* Initial states: a service with up to MaxPages pages of differing sizes,
\* holding the records 1..n in order

PageSeqs == UNION {[1..n -> 0..MaxPageLen] : n \in 0..MaxPages}

RECURSIVE SumSizes(_)
SumSizes(sz) == IF sz = <<>> THEN 0 ELSE Head(sz) + SumSizes(Tail(sz))

\* the pages of sizes sz over the ids first, first + 1, ...
RECURSIVE Paginate(_, _)
Paginate(sz, first) ==
    IF sz = <<>> THEN <<>>
    ELSE <<[j \in 1..Head(sz) |-> first + j - 1]>>
         \o Paginate(Tail(sz), first + Head(sz))

Init ==
    /\ kind \in Kinds
    /\ \E sz \in PageSeqs :
         /\ SumSizes(sz) <= MaxId
         /\ pages = Paginate(sz, 1)
         /\ nextId = SumSizes(sz) + 1
         /\ live = 1..SumSizes(sz)
    /\ op = "none"
    /\ requests = <<>>
    /\ total_pages = 0
    /\ all_pages = <<>>
    /\ outcome = "returned"
    /\ error = ""
    /\ result = None
    /\ auth_headers = NoHeaders
    /\ token = ""
    /\ extra_query = EmptyDict
    /\ built = NotBuilt
    /\ roundtrip = NoRoundTrip

\* Initial states of the create / delete runs: a service holding nothing
InitMutator ==
    /\ kind \in Kinds
    /\ pages = <<>>
    /\ nextId = 1
    /\ live = {}
    /\ op = "none"
    /\ requests = <<>>
    /\ total_pages = 0
    /\ all_pages = <<>>
    /\ outcome = "returned"
    /\ error = ""
    /\ result = None
    /\ auth_headers = NoHeaders
    /\ token = ""
    /\ extra_query = EmptyDict
    /\ built = NotBuilt
    /\ roundtrip = NoRoundTrip

----------------------------------------------------------------------------
\* Actions

\* get_entities: the summary request; with no page to fetch the call ends here
GetEntitiesSummary(status) ==
    /\ UNCHANGED <<auth_headers, token, extra_query, built, roundtrip>>
    /\ outcome # "pending"
    /\ LET r == ServiceGet(status, 0)
           summary == get_entities_summary(r).value
       IN /\ op' = "get_entities"
          /\ requests' = <<Request("GET", FALSE, 0,
                                   request_query(kind, extra_query), 0,
                                   status, "", <<>>)>>
          /\ all_pages' = <<>>
          /\ IF summary.isNone
             THEN \* total_pages, _ = None
                  /\ total_pages' = 0
                  /\ Finish(Raises("TypeError"))
             ELSE /\ total_pages' = summary.total_pages
                  /\ IF 0 \in range(summary.total_pages)
                     THEN /\ outcome' = "pending"
                          /\ error' = ""
                          /\ result' = None
                     ELSE Finish(get_entities(<<>>))
    /\ UNCHANGED <<kind, pages, nextId, live>>

\* get_entities: the request of the next page; after the last page the
\* pages are flattened
GetEntitiesNextPage(status) ==
    /\ UNCHANGED <<auth_headers, token, extra_query, built, roundtrip>>
    /\ op = "get_entities"
    /\ outcome = "pending"
    /\ LET index == Len(all_pages)
           query == request_query(kind, page_query(index, extra_query))
           r == ServiceGet(status, requested_page(query))
           call == get_entities_page(kind, r)
           collected == Append(all_pages, call.value)
       IN /\ requests' = Append(requests,
                Request("GET", TRUE, index, query, 0, status,
                        IF status = 200 THEN record_key(kind) ELSE "",
                        IF status = 200
                        THEN ServicePage(requested_page(query)) ELSE <<>>))
          /\ IF call.exc # ""
             THEN /\ all_pages' = all_pages
                  /\ Finish(call)
             ELSE /\ all_pages' = collected
                  /\ IF index + 1 \in range(total_pages)
                     THEN UNCHANGED <<outcome, error, result>>
                     ELSE Finish(get_entities(collected))
    /\ UNCHANGED <<kind, pages, nextId, op, total_pages, live>>

\* get_entities_page called on its own
GetEntitiesPage(index, status) ==
    /\ UNCHANGED <<auth_headers, token, extra_query, built, roundtrip>>
    /\ outcome # "pending"
    /\ LET query == request_query(kind, page_query(index, extra_query))
           r == ServiceGet(status, requested_page(query))
       IN /\ op' = "get_entities_page"
          /\ requests' = <<Request("GET", TRUE, index, query, 0, status,
                             IF status = 200 THEN record_key(kind) ELSE "",
                             IF status = 200
                             THEN ServicePage(requested_page(query))
                             ELSE <<>>)>>
          /\ Finish(get_entities_page(kind, r))
    /\ total_pages' = 0
    /\ all_pages' = <<>>
    /\ UNCHANGED <<kind, pages, nextId, live>>

\* create_entity of a locally constructed entity (no id)
CreateEntity(status) ==
    /\ UNCHANGED <<auth_headers, token, extra_query, built, roundtrip>>
    /\ outcome # "pending"
    /\ status = 201 => nextId <= MaxId
    /\ LET r == [status |-> status, json |-> WireRecord(kind, nextId)]
           call == create_entity(kind, r)
       IN /\ op' = "create_entity"
          /\ requests' = <<Request("POST", FALSE, 0,
                                   request_query(kind, extra_query), 0, status,
                                   "", <<>>)>>
          /\ Finish(call)
          /\ IF status = 201
             THEN /\ pages' = ServiceAppend(nextId)
                  /\ nextId' = nextId + 1
             ELSE UNCHANGED <<pages, nextId>>
          /\ live' = IF /\ call.exc = ""
                        /\ ~call.value.isNone
                        /\ "id" \in DOMAIN call.value.list[1].fields
                     THEN live \cup {call.value.list[1].fields["id"]}
                     ELSE live
    /\ total_pages' = 0
    /\ all_pages' = <<>>
    /\ UNCHANGED kind

\* delete_entity; the service answers 200 or 204 when it held the record,
\* 404 when it did not
DeleteEntity(entity_id, status) ==
    /\ UNCHANGED <<auth_headers, token, extra_query, built, roundtrip>>
    /\ outcome # "pending"
    /\ status \in {200, 204} => entity_id \in StoredIds
    /\ status = 404 => entity_id \notin StoredIds
    /\ LET r == [status |-> status] IN
          /\ op' = "delete_entity"
          /\ requests' = <<Request("DELETE", FALSE, 0,
                                   request_query(kind, extra_query), entity_id,
                                   status, "", <<>>)>>
          /\ Finish(delete_entity(kind, r))
          /\ IF status \in {200, 204}
             THEN /\ pages' = ServiceRemove(entity_id)
                  /\ live' = live \ {entity_id}
             ELSE UNCHANGED <<pages, live>>
    /\ total_pages' = 0
    /\ all_pages' = <<>>
    /\ UNCHANGED <<kind, nextId>>

\* the fields of a valid entity of a class: the declared ones and, for a
\* plugin, the list inputs
EntityNames(cls) ==
    DeclaredNames(cls) \cup (IF cls = "WippPlugin" THEN {WippPluginInputs} ELSE {})

EntityRequiredNames(cls) ==
    RequiredNames(cls) \cup (IF cls = "WippPlugin" THEN {WippPluginInputs} ELSE {})

\* an entity with its required fields and the optional fields present is
\* built from its lowerCamelCase keys (WippPlugin(**plugin)), serialized by
\* dict(by_alias=True) and parsed back; the value of a field is its name
RoundTrip(present) ==
    /\ outcome # "pending"
    /\ LET cls == EntityClass(kind)
           names == EntityRequiredNames(cls) \cup present
           data == [a \in {snake_case_to_lower_camel_case(n) : n \in names} |->
                      CHOOSE n \in names : snake_case_to_lower_camel_case(n) = a]
           entity == parse_obj(cls, data)
           wire == IF entity.exc = "" THEN dict_by_alias(entity.value)
                   ELSE EmptyDict
           parsed == IF entity.exc = "" THEN parse_obj(cls, wire) ELSE entity
       IN roundtrip' = [cls |-> cls, names |-> names, wire |-> wire,
                        parsed |-> parsed]
    /\ UNCHANGED <<kind, pages, nextId, op, requests, total_pages, all_pages,
                   outcome, error, result, live, auth_headers, token,
                   extra_query, built>>

\* build_request_url called with a route, a prefix, a suffix and a query
BuildRequestUrl(route, path_prefix, path_suffix, query) ==
    /\ outcome # "pending"
    /\ built' = [called |-> TRUE, route |-> route, path_prefix |-> path_prefix,
                 path_suffix |-> path_suffix, query |-> query,
                 request |-> build_request_url(route, kind, path_prefix,
                                               path_suffix, query)]
    /\ UNCHANGED <<kind, pages, nextId, op, requests, total_pages, all_pages,
                   outcome, error, result, live, auth_headers, token,
                   extra_query, roundtrip>>

\* w.auth_headers = keycloak_token, at any moment, also between the requests
\* of one walk
SetAuthHeaders(keycloak_token) ==
    /\ auth_headers' = auth_headers_setter(keycloak_token)
    /\ token' = keycloak_token
    /\ UNCHANGED <<kind, pages, nextId, op, requests, total_pages, all_pages,
                   outcome, error, result, live, extra_query, built, roundtrip>>

\* another client creates a record of the kind; live holds the ids the
\* service started with, so nextId - 1 - Cardinality(live) creates were made
OtherClientCreates(at) ==
    /\ nextId - 1 - Cardinality(live) < MaxOtherCreates
    /\ at \in 1..(Len(Flatten(pages)) + 1)
    /\ pages' = ServiceInsert(nextId, at)
    /\ nextId' = nextId + 1
    /\ UNCHANGED <<kind, op, requests, total_pages, all_pages, outcome, error,
                   result, live, auth_headers, token, extra_query, built,
                   roundtrip>>

\* another client deletes a record of the kind
OtherClientDeletes(entity_id) ==
    /\ entity_id \in StoredIds
    /\ pages' = ServiceDrop(entity_id)
    /\ UNCHANGED <<kind, nextId, op, requests, total_pages, all_pages, outcome,
                   error, result, live, auth_headers, token, extra_query,
                   built, roundtrip>>

\* the walker and the page fetcher over a service nobody changes
Next ==
    \/ \E status \in GetStatuses : GetEntitiesSummary(status)
    \/ \E status \in GetStatuses : GetEntitiesNextPage(status)
    \/ \E index \in 0..MaxPages, status \in GetStatuses :
          GetEntitiesPage(index, status)

Spec == Init /\ [][Next]_vars

\* create, delete and list-all against the stateful service
NextMutator ==
    \/ \E status \in PostStatuses : CreateEntity(status)
    \/ \E entity_id \in 1..MaxId, status \in DeleteStatuses :
          DeleteEntity(entity_id, status)
    \/ \E status \in GetStatuses : GetEntitiesSummary(status)
    \/ \E status \in GetStatuses : GetEntitiesNextPage(status)

SpecMutator == InitMutator /\ [][NextMutator]_vars

\* entities of the concrete classes, with at most MaxOptional optional fields
OptionalSets(cls) ==
    {present \in SUBSET (EntityNames(cls) \ EntityRequiredNames(cls)) :
        Cardinality(present) <= MaxOptional}

InitRoundTrip ==
    /\ kind \in SpecializedKinds
    /\ pages = <<>>
    /\ nextId = 1
    /\ live = {}
    /\ op = "none"
    /\ requests = <<>>
    /\ total_pages = 0
    /\ all_pages = <<>>
    /\ outcome = "returned"
    /\ error = ""
    /\ result = None
    /\ auth_headers = NoHeaders
    /\ token = ""
    /\ extra_query = EmptyDict
    /\ built = NotBuilt
    /\ roundtrip = NoRoundTrip

NextRoundTrip ==
    \E present \in OptionalSets(EntityClass(kind)) : RoundTrip(present)

SpecRoundTrip == InitRoundTrip /\ [][NextRoundTrip]_vars

\* a client just constructed, and a service that holds nothing
FreshClient ==
    /\ op = "none"
    /\ requests = <<>>
    /\ total_pages = 0
    /\ all_pages = <<>>
    /\ outcome = "returned"
    /\ error = ""
    /\ result = None
    /\ auth_headers = NoHeaders
    /\ token = ""
    /\ built = NotBuilt
    /\ roundtrip = NoRoundTrip

EmptyService ==
    /\ pages = <<>>
    /\ nextId = 1
    /\ live = {}

InitUrl ==
    /\ kind \in Kinds
    /\ extra_query = EmptyDict
    /\ EmptyService
    /\ FreshClient

NextUrl ==
    \E route \in ApiRoutes, path_prefix \in PathPrefixes,
       path_suffix \in PathSuffixes, query \in ExtraQueries :
          BuildRequestUrl(route, path_prefix, path_suffix, query)

SpecUrl == InitUrl /\ [][NextUrl]_vars

\* a fresh client on the image collections of an empty service, no token
\* assigned yet
InitAuth ==
    /\ kind = "imagesCollections"
    /\ extra_query = EmptyDict
    /\ EmptyService
    /\ FreshClient

\* one client whose token is assigned and replaced while it lists, creates
\* and deletes
NextAuth ==
    \/ \E keycloak_token \in Tokens : SetAuthHeaders(keycloak_token)
    \/ \E status \in GetStatuses : GetEntitiesSummary(status)
    \/ \E status \in GetStatuses : GetEntitiesNextPage(status)
    \/ \E index \in 0..MaxPages, status \in GetStatuses :
          GetEntitiesPage(index, status)
    \/ \E status \in PostStatuses : CreateEntity(status)
    \/ \E entity_id \in 1..MaxId, status \in DeleteStatuses :
          DeleteEntity(entity_id, status)

SpecAuth == InitAuth /\ [][NextAuth]_vars

\* the walker and the page fetcher called with an extra_query, which the
\* calls of one run share
InitQuery ==
    /\ kind \in Kinds
    /\ extra_query \in ExtraQueries
    /\ \E sz \in PageSeqs :
         /\ SumSizes(sz) <= MaxId
         /\ pages = Paginate(sz, 1)
         /\ nextId = SumSizes(sz) + 1
         /\ live = 1..SumSizes(sz)
    /\ FreshClient

NextQuery ==
    \/ \E status \in GetStatuses : GetEntitiesSummary(status)
    \/ \E status \in GetStatuses : GetEntitiesNextPage(status)
    \/ \E index \in 0..MaxPages, status \in GetStatuses :
          GetEntitiesPage(index, status)

SpecQuery == InitQuery /\ [][NextQuery]_vars

\* a walker on a service of full pages which another client changes at any
\* moment, also between the requests of a walk
InitConcurrent ==
    /\ kind \in FacadeKinds
    /\ extra_query = EmptyDict
    /\ \E n \in 0..MaxId :
         /\ pages = Chunk([j \in 1..n |-> j])
         /\ nextId = n + 1
         /\ live = 1..n
    /\ FreshClient

NextConcurrent ==
    \/ \E status \in GetStatuses : GetEntitiesSummary(status)
    \/ \E status \in GetStatuses : GetEntitiesNextPage(status)
    \/ \E at \in 1..(MaxId + MaxOtherCreates) : OtherClientCreates(at)
    \/ \E entity_id \in 1..(MaxId + MaxOtherCreates) :
          OtherClientDeletes(entity_id)

SpecConcurrent == InitConcurrent /\ [][NextConcurrent]_vars

----------------------------------------------------------------------------
\* Properties

\* the typed error the taxonomy gives a failed status
TypedError(status) ==
    CASE status = 401 -> "WippAuthenticationError"
      [] status = 403 -> "WippForbiddenError"
      [] status = 404 -> "WippNotFoundError"
      [] OTHER -> "RequestFailed"

\* the requests of the call that were not answered 200
FailedRequests == {i \in DOMAIN requests : requests[i].status # 200}

FirstFailed == CHOOSE i \in FailedRequests : \A j \in FailedRequests : i <= j

\* the entities of the service's records, page after page
RECURSIVE EntitiesOfPages(_)
EntitiesOfPages(pp) ==
    IF pp = <<>> THEN <<>>
    ELSE [j \in 1..Len(Head(pp)) |->
            Construct(EntityClass(kind), WireRecord(kind, Head(pp)[j])).value]
         \o EntitiesOfPages(Tail(pp))

\* C1: a get_entities whose requests all succeed returns exactly the records
\* of page 0, then page 1, ..., each page in the order the service holds it
C1_WalkConcatenatesPages ==
    (op = "get_entities" /\ outcome # "pending" /\ FailedRequests = {})
        => /\ outcome = "returned"
           /\ ~result.isNone
           /\ result.list = EntitiesOfPages(pages)
           /\ Len(requests) = Len(pages) + 1

C1_Witness ==
    /\ op = "get_entities"
    /\ outcome = "returned"
    /\ kind = "imagesCollections"
    /\ Len(pages) >= 2
    /\ Len(pages[1]) # Len(pages[2])
    /\ Len(pages[1]) > 0
    /\ Len(pages[2]) > 0
    /\ Len(result.list) = Len(pages[1]) + Len(pages[2])

\* C2: when the summary reports 0 pages, get_entities returns the empty list
\* after the summary request alone, and does not raise
C2_NoPagesNoRequests ==
    (/\ op = "get_entities"
     /\ requests # <<>>
     /\ requests[1].status = 200
     /\ Len(pages) = 0)
        => /\ outcome = "returned"
           /\ result = ListValue(<<>>)
           /\ Len(requests) = 1
           /\ ~requests[1].hasPage

C2_Witness ==
    /\ op = "get_entities"
    /\ Len(requests) = 1
    /\ requests[1].status = 200
    /\ Len(pages) = 0
    /\ outcome = "returned"

\* C3: a get_entities one of whose page requests fails raises the typed
\* error of that page and returns nothing
C3_FailedPageRaisesItsError ==
    (/\ op = "get_entities"
     /\ outcome # "pending"
     /\ \E i \in FailedRequests : requests[i].hasPage)
        => /\ outcome = "raised"
           /\ error = TypedError(requests[FirstFailed].status)

\* C4: every GET answered with a status other than 200 ends the call in the
\* typed error of that status, never in a returned value
C4_FailedGetRaisesTypedError ==
    (/\ op \in {"get_entities", "get_entities_page"}
     /\ outcome # "pending"
     /\ FailedRequests # {})
        => /\ outcome = "raised"
           /\ error = TypedError(requests[FirstFailed].status)

\* C5: create_entity answered with a status other than 201 raises the typed
\* error of that status and never returns None
C5_FailedCreateRaisesTypedError ==
    (op = "create_entity" /\ requests[1].status # 201)
        => /\ outcome = "raised"
           /\ error = TypedError(requests[1].status)

\* C6: delete_entity returns exactly when the service answers 200 or 204 and
\* raises the typed error of the status otherwise
C6_DeleteReturnsOnlyOnSuccess ==
    op = "delete_entity"
        => /\ (outcome = "returned") <=> (requests[1].status \in {200, 204})
           /\ requests[1].status \notin {200, 204}
                => /\ outcome = "raised"
                   /\ error = TypedError(requests[1].status)

\* the class the claim names for a kind
ClaimedClass(plural) ==
    CASE plural = "imagesCollections" -> "WippImageCollection"
      [] plural = "csvCollections" -> "WippCsvCollection"
      [] plural = "genericDatas" -> "WippGenericDataCollection"
      [] plural = "plugins" -> "WippPlugin"
      [] OTHER -> "WippEntity"

\* C7: for every kind, a create_entity answered 201 returns an entity of the
\* class of the kind that carries the id the service assigned
C7_CreateReturnsTypedEntityWithId ==
    (op = "create_entity" /\ requests[1].status = 201)
        => /\ outcome = "returned"
           /\ ~result.isNone
           /\ result.list[1].type = ClaimedClass(kind)
           /\ "id" \in DOMAIN result.list[1].fields
           /\ result.list[1].fields["id"] = nextId - 1

\* C8: after any creates and deletes, a list-all holds an entity of id i
\* exactly when i was returned by a create and not since deleted with success
C8_ListAllShowsLiveIds ==
    (/\ op = "get_entities"
     /\ outcome = "returned"
     /\ kind \in FacadeKinds)
        => /\ ~result.isNone
           /\ \A j \in 1..Len(result.list) : "id" \in DOMAIN result.list[j].fields
           /\ {result.list[j].fields["id"] : j \in 1..Len(result.list)} = live

C8_Witness ==
    /\ op = "get_entities"
    /\ outcome = "returned"
    /\ kind = "imagesCollections"
    /\ live # {}
    /\ nextId - 1 \notin live
    /\ nextId > 1
    /\ Len(result.list) = Cardinality(live)

\* C9: the envelope key read is the kind itself, except "csvs" for kind csv
\* and "genericFiles" for kind genericFile
C9_RecordKey ==
    \A i \in DOMAIN requests :
        (requests[i].hasPage /\ requests[i].status = 200)
            => /\ kind = "csv" => requests[i].key = "csvs"
               /\ kind = "genericFile" => requests[i].key = "genericFiles"
               /\ kind \notin {"csv", "genericFile"} => requests[i].key = kind
               /\ outcome = "raised" => error # "KeyError"

C9_Witness ==
    /\ op = "get_entities_page"
    /\ kind = "genericFile"
    /\ requests[1].status = 200
    /\ requests[1].key = "genericFiles"
    /\ outcome = "returned"
    /\ result.list # <<>>

\* C10: a record of a kind with no specialized class parses into a WippEntity
\* that exposes every field of the record
C10_GenericEntityKeepsFields ==
    (/\ op = "get_entities_page"
     /\ kind \in GenericKinds
     /\ requests[1].status = 200)
        => /\ outcome = "returned"
           /\ \A j \in 1..Len(result.list) :
                /\ result.list[j].type = "WippEntity"
                /\ \A f \in WireFields(kind) :
                     /\ f \in DOMAIN result.list[j].fields
                     /\ result.list[j].fields[f] = requests[1].served[j]

\* C11: for every concrete class, parsing the serialization of a valid entity
\* gives back every required field and every optional field that was
\* present; for a plugin that includes inputs, outputs and ui
C11_RoundTripKeepsFields ==
    roundtrip.cls # ""
        => /\ roundtrip.parsed.exc = ""
           /\ \A n \in roundtrip.names :
                /\ n \in DOMAIN roundtrip.parsed.value.attrs
                /\ roundtrip.parsed.value.attrs[n] = n

\* the round trip keeps every field the class declares
RoundTripKeepsDeclaredFields ==
    roundtrip.cls # ""
        => /\ roundtrip.parsed.exc = ""
           /\ \A n \in roundtrip.names \ {WippPluginInputs} :
                /\ n \in DOMAIN roundtrip.parsed.value.attrs
                /\ roundtrip.parsed.value.attrs[n] = n
           /\ AliasesOf(roundtrip.cls) = ModelFields(roundtrip.cls)

\* the API route as a string, without a trailing separator
RECURSIVE StripSeparators(_)
StripSeparators(path) ==
    IF path # <<>> /\ path[Len(path)] = "/"
    THEN StripSeparators(SubSeq(path, 1, Len(path) - 1))
    ELSE path

BaseUrl(route) ==
    route.scheme \o "://" \o route.netloc \o join(StripSeparators(route.path))

BuiltFromKindAlone ==
    /\ built.called
    /\ built.path_prefix = <<>>
    /\ built.path_suffix = <<>>
    /\ built.query = EmptyDict
    /\ built.route.query = EmptyDict

\* C12: with an empty prefix, suffix and extra query, build_request_url gives
\* exactly base/resource_kind, with no extra or trailing separator
C12_UrlIsBaseSlashKind ==
    BuiltFromKindAlone
        => built.request.url = BaseUrl(built.route) \o "/" \o kind

\* what the code builds there: base/resource_kind/
UrlIsBaseSlashKindSlash ==
    BuiltFromKindAlone
        => built.request.url = BaseUrl(built.route) \o "/" \o kind \o "/"

\* C13: a request issued before the first token assignment carries no
\* Authorization header; a request issued after an assignment carries
\* "Bearer <t>" for the token t assigned last before the request is issued,
\* the summary and page requests of one walk each taken on their own
C13_RequestsCarryLatestToken ==
    [][requests' # requests
         => LET r == requests'[Len(requests')] IN
            IF token = "" THEN r.headers.isNone
            ELSE /\ ~r.headers.isNone
                 /\ r.headers.Authorization = "Bearer " \o token]_vars

\* a walk whose summary request went out before any token was assigned,
\* its first page request under t1 and its second under t2
C13_Witness ==
    /\ op = "get_entities"
    /\ Len(requests) = 3
    /\ requests[1].headers.isNone
    /\ requests[2].headers = [isNone |-> FALSE, Authorization |-> "Bearer t1"]
    /\ requests[3].headers = [isNone |-> FALSE, Authorization |-> "Bearer t2"]
    /\ outcome = "returned"

\* the page requests of the log
PageRequests == {j \in 1..Len(requests) : requests[j].hasPage}

\* C14: whatever the extra_query, also one with a key "page", the request of
\* get_entities_page(kind, i) carries the query parameter page = i, and so
\* the page requests of a walk ask for pairwise distinct pages
C14_PageRequestCarriesIndex ==
    /\ \A j \in PageRequests :
          requests[j].query["page"] = <<str(requests[j].index)>>
    /\ \A j, k \in PageRequests :
          j # k => requests[j].query["page"] # requests[k].query["page"]

\* without a key "page" in the extra_query every page request carries the
\* index it was called with
PageRequestCarriesIndexUnlessOverridden ==
    "page" \notin DOMAIN extra_query
        => \A j \in PageRequests :
             /\ requests[j].query["page"] = <<str(requests[j].index)>>
             /\ \A k \in DOMAIN extra_query :
                   requests[j].query[k] = extra_query[k]

\* the log is a summary request followed by the page requests of the
\* indices 0, 1, ... in increasing order, each once
SummaryThenPagesInOrder ==
    /\ requests # <<>>
    /\ requests[1].method = "GET"
    /\ ~requests[1].hasPage
    /\ Len(requests) <= Len(pages) + 1
    /\ \A j \in 2..Len(requests) :
          /\ requests[j].method = "GET"
          /\ requests[j].hasPage
          /\ requests[j].page = j - 2

\* C15: a get_entities over a service of P pages issues one summary request
\* and then the page requests 0, 1, ..., P - 1 in order, P + 1 requests when
\* all succeed; no request is repeated, and a failed request is the last
\* request of the call
C15_WalkRequestTrace ==
    op = "get_entities"
        => /\ SummaryThenPagesInOrder
           /\ (outcome # "pending" /\ FailedRequests = {})
                 => Len(requests) = Len(pages) + 1
           /\ \A i \in FailedRequests : i = Len(requests)

\* the trace of a get_entities as far as the claim holds of the code: the
\* order and number of the requests, no request after a failed summary, and
\* every page requested whatever the earlier pages were answered
WalkRequestTraceOfCode ==
    op = "get_entities"
        => /\ SummaryThenPagesInOrder
           /\ (outcome # "pending" /\ FailedRequests = {})
                 => Len(requests) = Len(pages) + 1
           /\ 1 \in FailedRequests => Len(requests) = 1
           /\ (outcome # "pending" /\ requests[1].status = 200)
                 => Len(requests) = Len(pages) + 1

\* the ids of the returned entities, in order
ResultIds == [j \in 1..Len(result.list) |-> result.list[j].fields["id"]]

\* C16: the pages a walk requests are fixed by the total page count T read
\* from the summary response: whatever another client creates or deletes
\* between the requests, the walk requests the indices 0, ..., T - 1, each
\* once and in order, and a walk answered 200 throughout ends after T of them
C16_WalkRequestsPagesOfSummary ==
    (op = "get_entities" /\ requests[1].status = 200)
        => /\ Len(requests) <= total_pages + 1
           /\ \A j \in 2..Len(requests) :
                 requests[j].hasPage /\ requests[j].page = j - 2
           /\ outcome = "pending" <=> Len(requests) < total_pages + 1
           /\ Len(requests) = 1 + Len(all_pages)

\* a walk answered 200 throughout returns a record twice: a record was
\* created in front of it between two page requests
C16_Witness ==
    /\ op = "get_entities"
    /\ outcome = "returned"
    /\ FailedRequests = {}
    /\ kind \in FacadeKinds
    /\ \E j, k \in 1..Len(result.list) : j # k /\ ResultIds[j] = ResultIds[k]

\* a walk answered 200 throughout returns without a record the service has
\* held since before the walk: a record in front of it was deleted between
\* two page requests
WalkMissesStoredRecord ==
    /\ op = "get_entities"
    /\ outcome = "returned"
    /\ FailedRequests = {}
    /\ kind \in FacadeKinds
    /\ \E i \in StoredIds \cap live :
          \A j \in 1..Len(result.list) : ResultIds[j] # i

====
